---- MODULE Spec2Model ----
(***************************************************************************)
(* The live attendance session screen (AttendanceSession component), its   *)
(* API bindings and the axios response interceptor, as a state machine.    *)
(* One action per handler, timer callback or promise continuation.         *)
(***************************************************************************)
EXTENDS Naturals, FiniteSets

\* ---------------------------------------------------------------- bounds
\* Total stimuli one behaviour may contain: timer firings, overrides,
\* end-session requests, server-side recognitions and 401 responses.
MaxEvents == 3
\* Total manual overrides one behaviour may submit.
MaxOverrides == 1
\* Roster fetches that may be outstanding at once (network latency bound).
MaxInFlight == 2
\* Roster fetches that may fail in a row where polling goes on without end.
MaxFails == 2

\* The consecutive-failure threshold the specification names ("e.g., 3").
FailureThreshold == 3

\* ------------------------------------------------------------ data model
RegNos == {"r1", "r2"}
Status == {"present", "absent", "od"}

\* One row of the roster as the backend returns it.
Row(r, e) == [reg_no |-> r, status |-> e.status, marked_by |-> e.marked_by]

\* The backend's roster at session start: every student unmarked.
InitialServerRoster == [r \in RegNos |-> [status |-> "absent", marked_by |-> "system"]]

\* The response body of getSessionStudents: every row of the backend roster.
Snapshot(sr) == {Row(r, sr[r]) : r \in RegNos}

\* The backend applies an accepted manual override to one row.
ServerOverride(sr, r, s) == [sr EXCEPT ![r] = [status |-> s, marked_by |-> "manual"]]

\* The backend marks a recognised student present.
ServerMarkPresent(sr, r) ==
    [sr EXCEPT ![r] = [status |-> "present", marked_by |-> "system"]]

VARIABLES
    page,           \* "loaded" | "redirecting" (location.href assigned) | "unloaded"
    token,          \* localStorage holds access_token and class_name
    mounted,        \* the AttendanceSession component is mounted (videoRef.current set)
    effectRan,      \* the mount effect (useEffect, []) has run
    closeRequested, \* onClose ran: Dashboard's currentSession is null, unmount is due
    onCloseCalls,   \* number of onClose invocations
    loading,        \* useState loading
    students,       \* useState students: a set of rows ({} is the initial [])
    camera,         \* getUserMedia promise: "idle" | "pending" | "granted" | "denied"
    streamRef,      \* streamRef.current: "null" | "live" | "stopped"
    orphan,         \* a live stream was acquired but never stored in streamRef
    updateInterval, \* the 3 s roster timer is armed
    frameInterval,  \* the 1 s frame timer is armed
    fetches,        \* roster fetches in flight: [id, answered, data]
    nextAttempt,    \* id the next roster fetch gets (fetches started so far + 1)
    frameTicked,    \* history: the frame timer has fired
    blobPending,    \* canvas.toBlob callbacks not yet delivered
    framesInFlight, \* recognizeFace requests in flight
    overridesStarted, \* overrides submitted so far
    overrides,      \* manualOverride requests in flight: [id, reg, status, stage]
    endInFlight,    \* endSession requests in flight
    alert,          \* alert() raised by the latest step: "none" | "camera" | "override" | "end"
    rosterWarnings, \* RosterUnavailable warnings surfaced by loadStudents so far
    serverRoster,   \* the backend's authoritative roster
    appliedId,      \* history: id of the fetch whose response setStudents applied last
    lastSnapshot,   \* history: the response body setStudents applied last
    consecFails,    \* history: roster fetches failed since the last successful one
    events          \* stimuli so far

vars == <<page, token, mounted, effectRan, closeRequested, onCloseCalls, loading,
          students, camera, streamRef, orphan, updateInterval, frameInterval,
          fetches, nextAttempt, frameTicked, blobPending, framesInFlight,
          overrides, overridesStarted, endInFlight, alert, rosterWarnings,
          serverRoster,
          appliedId, lastSnapshot, consecFails, events>>

pageVars == <<page, token>>
uiVars == <<mounted, effectRan, closeRequested, onCloseCalls, loading>>
cameraVars == <<camera, streamRef, orphan>>
timerVars == <<updateInterval, frameInterval>>
rosterVars == <<students, appliedId, lastSnapshot, consecFails, rosterWarnings>>
fetchVars == <<fetches, nextAttempt>>
frameVars == <<frameTicked, blobPending, framesInFlight>>
overrideVars == <<overrides, overridesStarted>>
serverVars == <<serverRoster>>

Init ==
    /\ page = "loaded"
    /\ token = TRUE
    /\ mounted = TRUE
    /\ effectRan = FALSE
    /\ closeRequested = FALSE
    /\ onCloseCalls = 0
    /\ loading = FALSE
    /\ students = {}
    /\ camera = "idle"
    /\ streamRef = "null"
    /\ orphan = FALSE
    /\ updateInterval = FALSE
    /\ frameInterval = FALSE
    /\ fetches = {}
    /\ nextAttempt = 1
    /\ frameTicked = FALSE
    /\ blobPending = 0
    /\ framesInFlight = 0
    /\ overrides = {}
    /\ overridesStarted = 0
    /\ endInFlight = 0
    /\ alert = "none"
    /\ rosterWarnings = 0
    /\ serverRoster = InitialServerRoster
    /\ appliedId = 0
    /\ lastSnapshot = {}
    /\ consecFails = 0
    /\ events = 0

\* One more stimulus, within the bound.
Stimulus == events < MaxEvents /\ events' = events + 1

\* JavaScript of the page runs (the document has not been unloaded).
Running == page # "unloaded"

\* auth.isAuthenticated: an access token is stored.
IsAuthenticated == token

\* ------------------------------------------------------------ interceptor
\* Faulty variant of ResponseError: a 401 redirects and leaves the stored
\* credentials in place.
ResponseErrorKeepsToken(unauthorized) ==
    IF unauthorized
    THEN /\ Stimulus
         /\ token' = token
         /\ page' = "redirecting"
    ELSE UNCHANGED <<events, pageVars>>

\* api.interceptors.response, error branch: a 401 clears the stored
\* credentials and assigns window.location.href; the error is rejected on.
ResponseError(unauthorized) ==
    IF unauthorized
    THEN /\ Stimulus
         /\ token' = FALSE
         /\ page' = "redirecting"
    ELSE UNCHANGED <<events, pageVars>>

\* ---------------------------------------------------------------- camera
\* Faulty variant of StopCamera: no check of streamRef.current, so a call
\* without a stored stream throws.
StopCameraUnguarded(s) == IF s = "null" THEN "error" ELSE "stopped"

\* stopCamera: stop the tracks of the stream streamRef holds, if any.
StopCamera(s) == IF s = "live" THEN "stopped" ELSE s

\* The bounds leave room for one more roster fetch.
FetchRoom == Cardinality(fetches) < MaxInFlight

\* loadStudents up to its await: one getSessionStudents request is sent.
StartFetch ==
    /\ fetches' = fetches \cup {[id |-> nextAttempt, answered |-> FALSE, data |-> {}]}
    /\ nextAttempt' = nextAttempt + 1

\* The mount effect: startCamera(), loadStudents(), both setInterval calls.
MountEffect ==
    /\ Running /\ mounted /\ ~effectRan
    /\ FetchRoom
    /\ effectRan' = TRUE
    /\ camera' = "pending"
    /\ StartFetch
    /\ updateInterval' = TRUE
    /\ frameInterval' = TRUE
    /\ alert' = "none"
    /\ UNCHANGED <<events, pageVars, mounted, closeRequested, onCloseCalls,
                   loading, streamRef, orphan, rosterVars, frameVars,
                   overrideVars, endInFlight, serverVars>>

\* startCamera after its await, success: the stream is stored only when the
\* video element still exists (videoRef.current is null once unmounted).
StoreStream(isMounted, s) == IF isMounted THEN "live" ELSE s

\* A stream that startCamera received and did not store stays live, unreferenced.
Unstored(isMounted, o) == IF isMounted THEN o ELSE TRUE

\* getUserMedia resolves.
CameraGranted ==
    /\ Running /\ camera = "pending"
    /\ camera' = "granted"
    /\ streamRef' = StoreStream(mounted, streamRef)
    /\ orphan' = Unstored(mounted, orphan)
    /\ alert' = "none"
    /\ UNCHANGED <<events, pageVars, uiVars, timerVars, rosterVars, fetchVars,
                   frameVars, overrideVars, endInFlight, serverVars>>

\* getUserMedia rejects: startCamera's catch logs and alerts.
CameraDenied ==
    /\ Running /\ camera = "pending"
    /\ camera' = "denied"
    /\ alert' = "camera"
    /\ UNCHANGED <<events, pageVars, uiVars, streamRef, orphan, timerVars,
                   rosterVars, fetchVars, frameVars, overrideVars,
                   endInFlight, serverVars>>

\* ---------------------------------------------------------------- roster
\* The 3 s timer fires: setInterval(loadStudents, 3000).
UpdateTick ==
    /\ Stimulus
    /\ Running /\ updateInterval
    /\ FetchRoom
    /\ StartFetch
    /\ alert' = "none"
    /\ UNCHANGED <<pageVars, uiVars, cameraVars, timerVars, rosterVars,
                   frameVars, overrideVars, endInFlight, serverVars>>

\* The backend answers a roster request with its roster as of now.
ServerAnswerRoster(f) ==
    /\ f \in fetches /\ ~f.answered
    /\ fetches' = (fetches \ {f}) \cup
                  {[f EXCEPT !.answered = TRUE, !.data = Snapshot(serverRoster)]}
    /\ alert' = "none"
    /\ UNCHANGED <<events, pageVars, uiVars, cameraVars, timerVars,
                   rosterVars, nextAttempt, frameVars, overrideVars,
                   endInFlight, serverVars>>

\* Faulty variant of SetStudents: only the first response is applied.
SetStudentsKeepsShown(isMounted, cur, f) ==
    IF isMounted /\ cur = {} THEN f.data ELSE cur

\* Faulty variant of SetStudents: only the rows that differ from the rows
\* shown are kept.
SetStudentsChangedOnly(isMounted, cur, f) == IF isMounted THEN f.data \ cur ELSE cur

\* Faulty variant of SetStudents: the response is merged into the rows shown.
SetStudentsMerged(isMounted, cur, f) == IF isMounted THEN cur \cup f.data ELSE cur

\* Faulty variant of SetStudents: a response equal to the rows shown blanks
\* the list.
SetStudentsToggling(isMounted, cur, f) ==
    IF isMounted THEN (IF cur = f.data THEN {} ELSE f.data) ELSE cur

\* setStudents(response.data): the state is replaced by the response, whichever
\* request it answers. A state update of an unmounted component is dropped.
SetStudents(isMounted, cur, f) == IF isMounted THEN f.data ELSE cur

\* loadStudents after its await, success.
LoadStudentsOk(f) ==
    /\ Running /\ f \in fetches /\ f.answered
    /\ fetches' = fetches \ {f}
    /\ students' = SetStudents(mounted, students, f)
    /\ appliedId' = IF mounted THEN f.id ELSE appliedId
    /\ lastSnapshot' = IF mounted THEN f.data ELSE lastSnapshot
    /\ consecFails' = 0
    /\ alert' = "none"
    /\ UNCHANGED <<events, rosterWarnings, pageVars, uiVars, cameraVars,
                   timerVars, nextAttempt, frameVars, overrideVars,
                   endInFlight, serverVars>>

\* Faulty variant of StudentsAfterFailure: the catch block blanks the list.
StudentsCleared(cur) == {}

\* The roster state after loadStudents' catch block, which only logs.
StudentsAfterFailure(cur) == cur

\* loadStudents after its await, failure (network error or error status).
LoadStudentsFail(f, unauthorized) ==
    /\ Running /\ f \in fetches /\ ~f.answered
    /\ fetches' = fetches \ {f}
    /\ ResponseError(unauthorized)
    /\ students' = StudentsAfterFailure(students)
    /\ consecFails' = consecFails + 1
    /\ alert' = "none"
    /\ UNCHANGED <<uiVars, cameraVars, timerVars, nextAttempt,
                   appliedId, lastSnapshot, rosterWarnings, frameVars,
                   overrideVars, endInFlight, serverVars>>

\* ---------------------------------------------------------------- frames
\* captureAndSendFrame's guard: a video element and a stored stream.
CanCapture == mounted /\ streamRef # "null"

\* Faulty variant of FrameTick: the guard on the video element and the stream
\* is missing, so every tick that does not throw hands a frame to toBlob.
FrameTickUnguarded(thrown) ==
    /\ Stimulus
    /\ Running /\ frameInterval
    /\ frameTicked' = TRUE
    /\ blobPending' = IF ~thrown THEN blobPending + 1 ELSE blobPending
    /\ alert' = "none"
    /\ UNCHANGED <<pageVars, uiVars, cameraVars, timerVars, rosterVars,
                   fetchVars, framesInFlight, overrideVars, endInFlight,
                   serverVars>>

\* The 1 s timer fires: captureAndSendFrame up to canvas.toBlob. There is no
\* check of submissions still outstanding. thrown: the drawing code throws and
\* the outer catch logs.
FrameTick(thrown) ==
    /\ Stimulus
    /\ Running /\ frameInterval
    /\ frameTicked' = TRUE
    /\ blobPending' = IF CanCapture /\ ~thrown THEN blobPending + 1 ELSE blobPending
    /\ alert' = "none"
    /\ UNCHANGED <<pageVars, uiVars, cameraVars, timerVars, rosterVars,
                   fetchVars, framesInFlight, overrideVars, endInFlight,
                   serverVars>>

\* The toBlob callback: no blob, nothing sent; else recognizeFace is sent.
ToBlobCallback(hasBlob) ==
    /\ Running /\ blobPending > 0
    /\ blobPending' = blobPending - 1
    /\ framesInFlight' = IF hasBlob THEN framesInFlight + 1 ELSE framesInFlight
    /\ alert' = "none"
    /\ UNCHANGED <<events, pageVars, uiVars, cameraVars, timerVars,
                   rosterVars, fetchVars, frameTicked, overrideVars,
                   endInFlight, serverVars>>

\* The backend recognises a student in a submitted frame.
ServerRecognize(r) ==
    /\ Stimulus
    /\ framesInFlight > 0
    /\ serverRoster[r].marked_by = "system"
    /\ serverRoster' = ServerMarkPresent(serverRoster, r)
    /\ alert' = "none"
    /\ UNCHANGED <<pageVars, uiVars, cameraVars, timerVars, rosterVars,
                   fetchVars, frameVars, overrideVars, endInFlight>>

\* Faulty variant of RecognizeOk: the rows shown are marked present from the
\* recognition response.
RecognizeOkMarksRoster ==
    /\ Running /\ framesInFlight > 0
    /\ framesInFlight' = framesInFlight - 1
    /\ students' = {[row EXCEPT !.status = "present"] : row \in students}
    /\ alert' = "none"
    /\ UNCHANGED <<events, pageVars, uiVars, cameraVars, timerVars,
                   appliedId, lastSnapshot, consecFails, rosterWarnings,
                   fetchVars, frameTicked, blobPending,
                   overrideVars, endInFlight, serverVars>>

\* recognizeFace resolves: the response is not used.
RecognizeOk ==
    /\ Running /\ framesInFlight > 0
    /\ framesInFlight' = framesInFlight - 1
    /\ alert' = "none"
    /\ UNCHANGED <<events, pageVars, uiVars, cameraVars, timerVars,
                   rosterVars, fetchVars, frameTicked, blobPending,
                   overrideVars, endInFlight, serverVars>>

\* recognizeFace rejects: the inner catch logs.
RecognizeFail(unauthorized) ==
    /\ Running /\ framesInFlight > 0
    /\ framesInFlight' = framesInFlight - 1
    /\ ResponseError(unauthorized)
    /\ alert' = "none"
    /\ UNCHANGED <<uiVars, cameraVars, timerVars, rosterVars,
                   fetchVars, frameTicked, blobPending, overrideVars,
                   endInFlight, serverVars>>

\* -------------------------------------------------------------- overrides
\* The status select of a listed row changes: handleStatusChange up to its
\* await. The select is rendered for every row, whatever loading is.
HandleStatusChange(r, s) ==
    /\ Stimulus
    /\ Running /\ mounted
    /\ overridesStarted < MaxOverrides
    /\ overridesStarted' = overridesStarted + 1
    /\ \E row \in students : row.reg_no = r /\ row.status # s
    /\ overrides' = overrides \cup {[id |-> overridesStarted + 1, reg |-> r,
                                     status |-> s, stage |-> "sent"]}
    /\ alert' = "none"
    /\ UNCHANGED <<pageVars, uiVars, cameraVars, timerVars, rosterVars,
                   fetchVars, frameVars, endInFlight, serverVars>>

\* The backend accepts an override and records it.
ServerOverrideAccept(o) ==
    /\ o \in overrides /\ o.stage = "sent"
    /\ overrides' = (overrides \ {o}) \cup {[o EXCEPT !.stage = "accepted"]}
    /\ serverRoster' = ServerOverride(serverRoster, o.reg, o.status)
    /\ alert' = "none"
    /\ UNCHANGED <<overridesStarted, events, pageVars, uiVars, cameraVars,
                   timerVars, rosterVars, fetchVars, frameVars, endInFlight>>

\* The backend rejects an override.
ServerOverrideReject(o) ==
    /\ o \in overrides /\ o.stage = "sent"
    /\ overrides' = (overrides \ {o}) \cup {[o EXCEPT !.stage = "rejected"]}
    /\ alert' = "none"
    /\ UNCHANGED <<overridesStarted, events, pageVars, uiVars, cameraVars,
                   timerVars, rosterVars, fetchVars, frameVars, endInFlight,
                   serverVars>>

\* Faulty variant of OverrideOk: the success path leaves the refresh to the
\* next poll tick.
OverrideOkNoReload(o) ==
    /\ Running /\ o \in overrides /\ o.stage = "accepted"
    /\ FetchRoom
    /\ overrides' = overrides \ {o}
    /\ alert' = "none"
    /\ UNCHANGED <<overridesStarted, events, pageVars, uiVars, cameraVars,
                   timerVars, rosterVars, fetchVars, frameVars, endInFlight,
                   serverVars>>

\* handleStatusChange after its await, success: loadStudents() is called and
\* nothing is written to students.
OverrideOk(o) ==
    /\ Running /\ o \in overrides /\ o.stage = "accepted"
    /\ FetchRoom
    /\ overrides' = overrides \ {o}
    /\ StartFetch
    /\ alert' = "none"
    /\ UNCHANGED <<overridesStarted, events, pageVars, uiVars, cameraVars,
                   timerVars, rosterVars, frameVars, endInFlight, serverVars>>

\* Faulty variant of OverrideFail: loadStudents() runs on the failure path too.
OverrideFailReloads(o, unauthorized) ==
    /\ Running /\ o \in overrides
    /\ unauthorized => o.stage = "rejected"
    /\ overrides' = overrides \ {o}
    /\ ResponseError(unauthorized)
    /\ alert' = "override"
    /\ StartFetch
    /\ UNCHANGED <<overridesStarted, uiVars, cameraVars, timerVars,
                   rosterVars, frameVars, endInFlight, serverVars>>

\* handleStatusChange after its await, failure: an alert and nothing else. A
\* rejection may carry status 401; a lost request or response carries none.
OverrideFail(o, unauthorized) ==
    /\ Running /\ o \in overrides
    /\ unauthorized => o.stage = "rejected"
    /\ overrides' = overrides \ {o}
    /\ ResponseError(unauthorized)
    /\ alert' = "override"
    /\ UNCHANGED <<overridesStarted, uiVars, cameraVars, timerVars,
                   rosterVars, fetchVars, frameVars, endInFlight, serverVars>>

\* ------------------------------------------------------------ end session
\* Faulty variant of HandleEndSession: the button is not disabled while
\* loading.
HandleEndSessionUnguarded(confirmed) ==
    /\ Running /\ mounted /\ effectRan
    /\ IF confirmed
       THEN /\ Stimulus
            /\ loading' = TRUE
            /\ endInFlight' = endInFlight + 1
       ELSE UNCHANGED <<events, loading, endInFlight>>
    /\ alert' = "none"
    /\ UNCHANGED <<pageVars, mounted, effectRan, closeRequested,
                   onCloseCalls, cameraVars, timerVars, rosterVars, fetchVars,
                   frameVars, overrideVars, serverVars>>

\* The End Session button (disabled while loading): handleEndSession up to its
\* await. confirmed: the answer to confirm().
HandleEndSession(confirmed) ==
    /\ Running /\ mounted /\ effectRan /\ ~loading
    /\ IF confirmed
       THEN /\ Stimulus
            /\ loading' = TRUE
            /\ endInFlight' = endInFlight + 1
       ELSE UNCHANGED <<events, loading, endInFlight>>
    /\ alert' = "none"
    /\ UNCHANGED <<pageVars, mounted, effectRan, closeRequested,
                   onCloseCalls, cameraVars, timerVars, rosterVars, fetchVars,
                   frameVars, overrideVars, serverVars>>

\* Faulty variant of EndSessionOk: teardown runs only once no frame is outstanding.
EndSessionOkAwaitsFrames ==
    /\ Running /\ endInFlight > 0
    /\ framesInFlight = 0 /\ blobPending = 0
    /\ endInFlight' = endInFlight - 1
    /\ streamRef' = StopCamera(streamRef)
    /\ onCloseCalls' = onCloseCalls + 1
    /\ closeRequested' = TRUE
    /\ alert' = "none"
    /\ UNCHANGED <<events, pageVars, mounted, effectRan, loading, camera,
                   orphan, timerVars, rosterVars, fetchVars, frameVars,
                   overrideVars, serverVars>>

\* Faulty variant of EndSessionOk: setLoading(false) runs on success as well.
EndSessionOkResetsLoading ==
    /\ Running /\ endInFlight > 0
    /\ endInFlight' = endInFlight - 1
    /\ streamRef' = StopCamera(streamRef)
    /\ onCloseCalls' = onCloseCalls + 1
    /\ closeRequested' = TRUE
    /\ loading' = FALSE
    /\ alert' = "none"
    /\ UNCHANGED <<events, pageVars, mounted, effectRan, camera, orphan,
                   timerVars, rosterVars, fetchVars, frameVars, overrideVars,
                   serverVars>>

\* handleEndSession after its await, success: stopCamera(), onClose().
\* onClose is Dashboard's handleSessionEnd: setCurrentSession(null).
EndSessionOk ==
    /\ Running /\ endInFlight > 0
    /\ endInFlight' = endInFlight - 1
    /\ streamRef' = StopCamera(streamRef)
    /\ onCloseCalls' = onCloseCalls + 1
    /\ closeRequested' = TRUE
    /\ alert' = "none"
    /\ UNCHANGED <<events, pageVars, mounted, effectRan, loading, camera,
                   orphan, timerVars, rosterVars, fetchVars, frameVars,
                   overrideVars, serverVars>>

\* Faulty variant of EndSessionFail: the camera is stopped on the failure
\* path too.
EndSessionFailStopsCamera(unauthorized) ==
    /\ Running /\ endInFlight > 0
    /\ endInFlight' = endInFlight - 1
    /\ ResponseError(unauthorized)
    /\ alert' = "end"
    /\ loading' = FALSE
    /\ streamRef' = StopCamera(streamRef)
    /\ UNCHANGED <<mounted, effectRan, closeRequested, onCloseCalls,
                   camera, orphan, timerVars, rosterVars, fetchVars, frameVars,
                   overrideVars, serverVars>>

\* handleEndSession after its await, failure: alert, setLoading(false).
EndSessionFail(unauthorized) ==
    /\ Running /\ endInFlight > 0
    /\ endInFlight' = endInFlight - 1
    /\ ResponseError(unauthorized)
    /\ alert' = "end"
    /\ loading' = FALSE
    /\ UNCHANGED <<mounted, effectRan, closeRequested, onCloseCalls,
                   cameraVars, timerVars, rosterVars, fetchVars, frameVars,
                   overrideVars, serverVars>>

\* Dashboard re-renders without the session: the effect's cleanup runs
\* (both clearInterval calls, stopCamera()) and the refs are cleared.
Unmount ==
    /\ Running /\ mounted /\ closeRequested
    /\ mounted' = FALSE
    /\ updateInterval' = FALSE
    /\ frameInterval' = FALSE
    /\ streamRef' = StopCamera(streamRef)
    /\ alert' = "none"
    /\ UNCHANGED <<events, pageVars, effectRan, closeRequested, onCloseCalls,
                   loading, camera, orphan, rosterVars, fetchVars, frameVars,
                   overrideVars, endInFlight, serverVars>>

\* The navigation the interceptor started takes place: the document is
\* destroyed with its timers, its pending callbacks and its media streams.
PageUnload ==
    /\ page = "redirecting"
    /\ page' = "unloaded"
    /\ mounted' = FALSE
    /\ updateInterval' = FALSE
    /\ frameInterval' = FALSE
    /\ streamRef' = StopCamera(streamRef)
    /\ orphan' = FALSE
    /\ fetches' = {}
    /\ overrides' = {}
    /\ blobPending' = 0
    /\ framesInFlight' = 0
    /\ endInFlight' = 0
    /\ alert' = "none"
    /\ UNCHANGED <<overridesStarted, events, token, effectRan, closeRequested,
                   onCloseCalls, loading, camera, rosterVars, nextAttempt,
                   frameTicked, serverVars>>

Next ==
    \/ MountEffect
    \/ CameraGranted
    \/ CameraDenied
    \/ UpdateTick
    \/ \E f \in fetches : ServerAnswerRoster(f)
    \/ \E f \in fetches : LoadStudentsOk(f)
    \/ \E f \in fetches, u \in BOOLEAN : LoadStudentsFail(f, u)
    \/ \E thrown \in BOOLEAN : FrameTick(thrown)
    \/ \E hasBlob \in BOOLEAN : ToBlobCallback(hasBlob)
    \/ \E r \in RegNos : ServerRecognize(r)
    \/ RecognizeOk
    \/ \E u \in BOOLEAN : RecognizeFail(u)
    \/ \E r \in RegNos, s \in Status : HandleStatusChange(r, s)
    \/ \E o \in overrides : ServerOverrideAccept(o)
    \/ \E o \in overrides : ServerOverrideReject(o)
    \/ \E o \in overrides : OverrideOk(o)
    \/ \E o \in overrides, u \in BOOLEAN : OverrideFail(o, u)
    \/ \E c \in BOOLEAN : HandleEndSession(c)
    \/ EndSessionOk
    \/ \E u \in BOOLEAN : EndSessionFail(u)
    \/ Unmount
    \/ PageUnload

Spec == Init /\ [][Next]_vars

\* --------------------------------------------------- polling without end
\* Request ids for poll ticks that go on without end: above every attempt
\* number, reused once the request is no longer in flight.
PollIds == {MaxEvents + 2 + i : i \in 1..MaxInFlight}

\* The 3 s timer fires, any number of times: setInterval(loadStudents, 3000).
\* The request takes the least id not in flight.
PollTick ==
    /\ Running /\ updateInterval
    /\ FetchRoom
    /\ LET free == {i \in PollIds : \A f \in fetches : f.id # i}
       IN /\ free # {}
          /\ fetches' = fetches \cup
                 {[id |-> CHOOSE i \in free : \A j \in free : i <= j,
                   answered |-> FALSE, data |-> {}]}
    /\ alert' = "none"
    /\ UNCHANGED <<events, nextAttempt, pageVars, uiVars, cameraVars,
                   timerVars, rosterVars, frameVars, overrideVars,
                   endInFlight, serverVars>>

\* The session that stays open with a backend that answers: the roster and
\* override handlers, the poll timer firing without end, no end-session
\* request, no 401, at most MaxFails failures in a row, and a backend roster
\* that one override changes and nothing changes after it (no recognition,
\* no second override).
LiveNext ==
    \/ MountEffect
    \/ CameraGranted
    \/ CameraDenied
    \/ PollTick
    \/ \E f \in fetches : ServerAnswerRoster(f)
    \/ \E f \in fetches : LoadStudentsOk(f)
    \/ \E f \in fetches : consecFails < MaxFails /\ LoadStudentsFail(f, FALSE)
    \/ \E r \in RegNos, s \in Status :
          overridesStarted = 0 /\ HandleStatusChange(r, s)
    \/ \E o \in overrides : ServerOverrideAccept(o)
    \/ \E o \in overrides : ServerOverrideReject(o)
    \/ \E o \in overrides : OverrideOk(o)
    \/ \E o \in overrides : OverrideFail(o, FALSE)

\* The effect runs after the first render, the interval timer keeps firing,
\* the backend answers a request that stays outstanding, and a response
\* that has arrived is handed to its continuation.
LiveFairness ==
    /\ WF_vars(MountEffect)
    /\ WF_vars(PollTick)
    /\ WF_vars(\E f \in fetches : ServerAnswerRoster(f))
    /\ WF_vars(\E f \in fetches : LoadStudentsOk(f))

LiveSpec == Init /\ [][LiveNext]_vars /\ LiveFairness

\* ------------------------------------------------------------------ phase
\* The session phase the component's state stands for: Ended once the
\* component is gone, Ending while loading is set (an end-session request is
\* outstanding or has succeeded), Initializing until getUserMedia settles.
Phase ==
    IF ~mounted THEN "Ended"
    ELSE IF loading THEN "Ending"
    ELSE IF camera \in {"idle", "pending"} THEN "Initializing"
    ELSE "Active"

PhaseRank ==
    CASE Phase = "Initializing" -> 0
      [] Phase = "Active" -> 1
      [] Phase = "Ending" -> 2
      [] Phase = "Ended" -> 3

\* ----------------------------------------------------------------- claims

\* C1: at most one frame submission (recognizeFace request) is in flight in
\* every reachable state.
C1_AtMostOneFrameInFlight == framesInFlight <= 1

\* C2: once camera acquisition has failed, no roster poll has been started
\* and no frame tick has fired in the session.
C2_NoTicksAfterCameraFailure ==
    camera = "denied" => (nextAttempt = 1 /\ ~frameTicked)

\* C3: roster responses are applied in the order their polls were started: a
\* response to a poll started before the one applied last leaves the roster
\* state as it is.
C3_RosterAppliedInStartOrder ==
    [][\A f \in fetches :
          (LoadStudentsOk(f) /\ f.id < appliedId) => students' = students]_vars

\* C4: the step that receives an override's success response leaves the
\* roster state showing that registration id with the new status, marked
\* manual.
C4_OverrideShownOnSuccess ==
    [][\A o \in overrides :
          (OverrideOk(o) /\ mounted) =>
              \E row \in students' : /\ row.reg_no = o.reg
                                     /\ row.status = o.status
                                     /\ row.marked_by = "manual"]_vars

\* C5: the step that receives an override's failure leaves the roster state
\* as it was, starts no roster fetch, and alerts the user.
C5_FailedOverrideLeavesRoster ==
    [][\A o \in overrides, u \in BOOLEAN :
          OverrideFail(o, u) => /\ students' = students
                                /\ fetches' = fetches
                                /\ nextAttempt' = nextAttempt
                                /\ alert' = "override"]_vars

\* An override has just failed on a mounted session that shows a roster.
C5_Witness == alert = "override" /\ mounted /\ students # {}

\* C6: once more consecutive roster polls have failed than the threshold,
\* exactly one RosterUnavailable warning has been surfaced.
C6_RosterUnavailableWarned ==
    consecFails > FailureThreshold => rosterWarnings = 1

C8_TeardownNeverWaitsForFrame ==
    framesInFlight > 0 =>
        /\ (Running /\ endInFlight > 0) => ENABLED EndSessionOk
        /\ (Running /\ mounted /\ closeRequested) => ENABLED Unmount
        /\ ~mounted => /\ ~updateInterval /\ ~frameInterval
                       /\ streamRef = "stopped" /\ ~orphan

\* Teardown has completed while a frame submission is still in flight.
C8_Witness ==
    /\ framesInFlight > 0 /\ ~mounted /\ Running /\ onCloseCalls = 1
    /\ streamRef = "stopped" /\ ~updateInterval /\ ~frameInterval

\* C9: once the session has ended no camera stream acquired for it is live.
C9_CameraReleasedOnceEnded ==
    Phase = "Ended" => (streamRef # "live" /\ ~orphan)

\* C10 (as claimed): no step takes the phase backward.
C10_PhaseMonotonic == [][PhaseRank' >= PhaseRank]_vars

\* C10 (amended): the only step that takes the phase backward is the failure
\* of the end-session request, from Ending to Active or Initializing.
C10_PhaseBackOnlyOnEndFailure ==
    [][PhaseRank' < PhaseRank =>
          /\ Phase = "Ending"
          /\ Phase' \in {"Initializing", "Active"}
          /\ \E u \in BOOLEAN : EndSessionFail(u)]_vars

\* The end-session request has just failed: the session is Active again.
C10_Witness == alert = "end" /\ Phase = "Active" /\ endInFlight = 0

\* C11: from the moment an end-session request is accepted (loading is set)
\* neither periodic timer fires again: no roster poll tick and no frame tick
\* is a step of a session whose end has been requested.
C11_NoTickOnceEndRequested ==
    [][loading => ~(UpdateTick \/ \E thrown \in BOOLEAN : FrameTick(thrown))]_vars

\* C12: an override is submitted to the backend only while the session is
\* Active.
C12_OverrideOnlyWhileActive ==
    [][\A r \in RegNos, s \in Status :
          HandleStatusChange(r, s) => Phase = "Active"]_vars

\* C13: the step that receives a failed frame submission, with status 401
\* or any other failure, leaves the page, the credentials, the component, its
\* timers and its phase as they were and raises no alert.
C13_FrameFailureSwallowed ==
    [][\A u \in BOOLEAN :
          RecognizeFail(u) => /\ page' = page /\ token' = token
                              /\ mounted' = mounted /\ Phase' = Phase
                              /\ updateInterval' = updateInterval
                              /\ frameInterval' = frameInterval
                              /\ alert' = "none"]_vars

\* C14: a roster poll tick that fires while a roster fetch is outstanding
\* starts no fetch.
C14_PollTickSkippedWhileFetching ==
    [][(UpdateTick /\ fetches # {}) => fetches' = fetches]_vars

C16_StopCameraIdempotent ==
    /\ StopCamera(StopCamera(streamRef)) = StopCamera(streamRef)
    /\ streamRef = "null" => StopCamera(streamRef) = "null"

\* stopCamera has run twice on an acquired stream: on the end-session
\* success and again in the effect's cleanup.
C16_Witness ==
    /\ ~mounted /\ page = "loaded" /\ onCloseCalls = 1
    /\ camera = "granted" /\ streamRef = "stopped" /\ ~orphan

\* C17: the step that receives an override's success response sends a roster
\* request of its own, without any poll tick.
C17_AcceptedOverrideStartsFetch ==
    [][\A o \in overrides :
          OverrideOk(o) => \E f \in fetches' \ fetches :
                               f.id = nextAttempt /\ ~f.answered]_vars

\* The only stimulus so far was an override, the backend accepted it, and a
\* second roster fetch has been started: the one the success handler starts.
C17_Witness ==
    /\ events = 1 /\ overridesStarted = 1 /\ overrides = {}
    /\ nextAttempt = 3
    /\ \E r \in RegNos : serverRoster[r].marked_by = "manual"

\* C18: a roster response received once the end of the session has been
\* requested (phase Ending or Ended) leaves the roster state as it is.
C18_LateRosterResponseIgnored ==
    [][\A f \in fetches :
          (LoadStudentsOk(f) /\ Phase \in {"Ending", "Ended"}) =>
              students' = students]_vars

\* C19: once camera acquisition has failed the session is Ended.
C19_CameraFailureEndsSession == camera = "denied" => Phase = "Ended"

\* C20: applying an answered roster response twice gives the roster state
\* that applying it once gives; applying again the response applied last
\* leaves the roster state as it is.
C20_SnapshotApplicationIdempotent ==
    \A f \in fetches : f.answered =>
        /\ SetStudents(mounted, SetStudents(mounted, students, f), f)
               = SetStudents(mounted, students, f)
        /\ (mounted /\ appliedId > 0 /\ f.data = lastSnapshot) =>
               SetStudents(mounted, students, f) = students

\* A response equal to the roster already applied is waiting to be applied.
C20_Witness ==
    /\ mounted /\ appliedId > 0 /\ students # {}
    /\ \E f \in fetches : f.answered /\ f.data = students

\* C22: no step of the frame sampling path (the tick, the toBlob callback,
\* the success or the failure of the submission) changes the roster state.
C22_FramePathNeverWritesRoster ==
    [][(\/ \E thrown \in BOOLEAN : FrameTick(thrown)
        \/ \E hasBlob \in BOOLEAN : ToBlobCallback(hasBlob)
        \/ RecognizeOk
        \/ \E u \in BOOLEAN : RecognizeFail(u)) => students' = students]_vars

\* A submitted frame was recognised by the backend and its response has been
\* received, and the roster shown is still the one loaded before.
C22_Witness ==
    /\ mounted /\ frameTicked /\ blobPending = 0 /\ framesInFlight = 0
    /\ students = Snapshot(InitialServerRoster)
    /\ \E r \in RegNos : serverRoster[r].status = "present"

\* C23: a frame tick that fires while no video element or no stream is held
\* hands nothing to toBlob, sends nothing, raises no alert and leaves the
\* frame timer armed.
C23_TickWithoutStreamSkips ==
    [][\A thrown \in BOOLEAN :
          (FrameTick(thrown) /\ ~CanCapture) =>
              /\ blobPending' = blobPending
              /\ framesInFlight' = framesInFlight
              /\ alert' = "none"
              /\ frameInterval' /\ mounted' = mounted]_vars

\* The frame timer has fired in a session whose camera acquisition failed:
\* nothing was submitted and the timer is still armed.
C23_Witness ==
    /\ camera = "denied" /\ streamRef = "null" /\ frameTicked
    /\ blobPending = 0 /\ framesInFlight = 0 /\ alert = "none"
    /\ mounted /\ frameInterval

C25_EndFailureKeepsSession ==
    [][\A u \in BOOLEAN :
          EndSessionFail(u) => /\ streamRef' = streamRef /\ orphan' = orphan
                               /\ onCloseCalls' = onCloseCalls
                               /\ closeRequested' = closeRequested
                               /\ updateInterval' = updateInterval
                               /\ frameInterval' = frameInterval
                               /\ mounted' = mounted
                               /\ ~loading'
                               /\ page' = "loaded"]_vars

\* C25 (amended): the same, except that a failure with status 401 starts
\* the redirect to "/", which ends the session.
C25_EndFailureKeepsSessionUnless401 ==
    [][\A u \in BOOLEAN :
          EndSessionFail(u) => /\ streamRef' = streamRef /\ orphan' = orphan
                               /\ onCloseCalls' = onCloseCalls
                               /\ closeRequested' = closeRequested
                               /\ updateInterval' = updateInterval
                               /\ frameInterval' = frameInterval
                               /\ mounted' = mounted
                               /\ ~loading'
                               /\ page' = (IF u THEN "redirecting" ELSE page)]_vars

\* The end-session call has just failed on a session with a live camera:
\* camera, timers and component are as before and End Session is enabled.
C25_Witness ==
    /\ alert = "end" /\ page = "loaded" /\ mounted /\ ~loading
    /\ streamRef = "live" /\ updateInterval /\ frameInterval
    /\ onCloseCalls = 0 /\ ~closeRequested
    /\ ENABLED HandleEndSession(FALSE)

\* C26: at most one end-session request is in flight, onClose has run at
\* most once, and while a request is in flight the End Session handler
\* cannot run.
C26_SingleEndRequest ==
    /\ endInFlight <= 1
    /\ onCloseCalls <= 1
    /\ endInFlight > 0 => ~ENABLED (\E c \in BOOLEAN : HandleEndSession(c))

\* An end-session request is in flight, stimuli are left, and the handler
\* cannot run again.
C26_Witness ==
    /\ endInFlight = 1 /\ loading /\ mounted /\ page = "loaded"
    /\ events < MaxEvents
    /\ ~ENABLED HandleEndSession(TRUE)

\* C27: the step that receives a 401, for a roster fetch, a frame
\* submission, an override or the end-session call, leaves no stored
\* credentials (isAuthenticated is false) and runs the caller's failure
\* path; the credentials stay cleared afterwards.
C27_UnauthorizedClearsCredentials ==
    [][/\ (\E f \in fetches : LoadStudentsFail(f, TRUE)) =>
              (~IsAuthenticated' /\ consecFails' = consecFails + 1)
       /\ RecognizeFail(TRUE) =>
              (~IsAuthenticated' /\ framesInFlight' = framesInFlight - 1)
       /\ (\E o \in overrides : OverrideFail(o, TRUE)) =>
              (~IsAuthenticated' /\ alert' = "override")
       /\ EndSessionFail(TRUE) =>
              (~IsAuthenticated' /\ alert' = "end" /\ ~loading')
       /\ ~IsAuthenticated => ~IsAuthenticated']_vars

\* An override was answered 401: the credentials are gone, the redirect has
\* started, and the handler's catch has raised its alert.
C27_Witness ==
    /\ ~IsAuthenticated /\ page = "redirecting" /\ alert = "override"

\* C21: once the backend has accepted an override, in a session that stays
\* open and whose roster fetches eventually succeed, the roster state
\* eventually equals the backend's roster, whatever stale response was
\* applied in between.
C21_RosterConvergesAfterOverride ==
    (\E r \in RegNos : serverRoster[r].marked_by = "manual")
        ~> (students = Snapshot(serverRoster))

\* The override has succeeded, the fetch its success started is no longer in
\* flight, and the response applied last is that of a poll answered before
\* the override: the roster shown is stale.
C21_Witness ==
    /\ mounted /\ overridesStarted = 1 /\ overrides = {}
    /\ \E r \in RegNos : serverRoster[r].marked_by = "manual"
    /\ nextAttempt = 3 /\ \A f \in fetches : f.id # 2
    /\ appliedId \in PollIds /\ consecFails = 0
    /\ students # Snapshot(serverRoster)
====
